---- MODULE Spec2Model ----
(***************************************************************************)
(* Model of the Kalliope C bridges:                                        *)
(*   Sources/CKalliopeBridge/CKalliope.c   GMP va_list forwarders and the  *)
(*                                         stdin redirect / restore helper *)
(*   Sources/CLinusBridge/CLinusBridge.c   MPFR constants and forwarders   *)
(*                                                                         *)
(* The redirect / restore helper is two or three libc calls (freopen,      *)
(* dup2, clearerr, rewind).  What it does is therefore decided by the      *)
(* process's descriptor table, the open file descriptions behind it and    *)
(* the stdin FILE object, which are the state modelled here.  The libc     *)
(* calls follow ISO C 7.21.5.4 / POSIX freopen, dup2, clearerr, rewind;    *)
(* where the two C libraries a Swift package is built against differ       *)
(* (Apple/BSD libc, glibc) the build is a value chosen once, in Init.      *)
(***************************************************************************)
EXTENDS Integers, Sequences, FiniteSets, TLC

VARIABLES
    libc,     \* which C library the process is linked with: "bsd" | "glibc"
    io,       \* descriptor table, open file descriptions, stdin, stdout/stderr
    step,     \* name of the bridge / caller operation that made the last step
    call,     \* the most recent redirect / restore call: arguments and result
    got,      \* bytes the reads of stdin returned since that call
    eofSeen,  \* whether one of those reads returned EOF
    cyc,      \* monitor of one save -> redirect -> reads -> restore scenario
    hist,     \* what has been called so far
    fwd,      \* the most recent forwarding call and the library call it made
    prec,     \* first and latest value returned by the two precision queries
    thr,      \* the two test threads of the concurrent scenario
    serialized \* whether the test threads follow the caller discipline

vars == <<libc, io, step, call, got, eofSeen, cyc, hist, fwd, prec, thr, serialized>>

---------------------------------------------------------------------------
(* Bounds of the model *)

\* descriptors are 0 .. MaxFd
MaxFd == 4
\* bytes one refill of the stdin buffer reads ahead
BufSize == 2
\* bytes stdout / stderr may hold unflushed
MaxOut == 1

(* Program constants *)

\* <unistd.h> STDIN_FILENO, as used by ckalliope_restore_stdin
STDIN_FILENO == 0
\* <stdio.h> EOF, the value a read returns at end of input or on error
EOF == -1

Fds == 0..MaxFd
OfdIds == 1..(MaxFd + 1)
NoOfd == 0
NoFd == -1

\* The files of the scenario: what stdin is bound to when the process starts,
\* two files a test redirects to, the terminal behind stdout and stderr.
Files == {"orig", "A", "B", "tty"}
\* The paths a test passes to redirect; "missing" names no file.
Paths == {"A", "B", "missing"}
Exists(path) == path \in Files

Content(f) ==
    CASE f = "orig" -> <<1, 2, 3>>
      [] f = "A"    -> <<4, 5>>
      [] f = "B"    -> <<6>>
      [] OTHER      -> <<>>

Min(S) == CHOOSE x \in S : \A y \in S : x <= y

---------------------------------------------------------------------------
(* The kernel side: descriptors and open file descriptions *)

FreeOfdRec == [file |-> "none", off |-> 0]
ClosedStream == [open |-> FALSE, fd |-> NoFd, buf |-> <<>>, eof |-> FALSE, err |-> FALSE]

OpenFds(s) == {f \in Fds : s.fdtab[f] # NoOfd}
FreeFds(s) == Fds \ OpenFds(s)

\* An open file description nobody refers to any more is released.  The
\* descriptions are renumbered so that each is named after the lowest
\* descriptor that refers to it (the numbers are the model's, not the kernel's).
Gc(s) ==
    LET rep(f) == Min({g \in Fds : s.fdtab[g] = s.fdtab[f]})
    IN  [s EXCEPT
          !.fdtab = [f \in Fds |-> IF s.fdtab[f] = NoOfd THEN NoOfd ELSE rep(f) + 1],
          !.ofd = [o \in OfdIds |->
                     IF s.fdtab[o - 1] # NoOfd /\ rep(o - 1) = o - 1
                     THEN s.ofd[s.fdtab[o - 1]]
                     ELSE FreeOfdRec]]

FreeOfd(s) == Min({o \in OfdIds : \A f \in Fds : s.fdtab[f] # o})

\* close(fd)
SysClose(s, fd) ==
    IF fd \in Fds THEN Gc([s EXCEPT !.fdtab[fd] = NoOfd]) ELSE s

\* descriptor fd made to refer to a fresh open file description of file f,
\* positioned at its first byte (open(2), then dup2 onto fd when fd is given)
BindNew(s, fd, f) ==
    LET s1 == SysClose(s, fd)
        o  == FreeOfd(s1)
    IN  Gc([s1 EXCEPT !.fdtab[fd] = o, !.ofd[o] = [file |-> f, off |-> 0]])

\* lseek(fd, pos, SEEK_SET) on a regular file
SysSeek(s, fd, pos) ==
    IF fd \in Fds /\ s.fdtab[fd] # NoOfd /\ pos >= 0
    THEN [s EXCEPT !.ofd[s.fdtab[fd]].off = pos]
    ELSE s

\* dup2(oldfd, newfd): succeeds iff oldfd is an open descriptor
Dup2OK(s, oldfd) == oldfd \in Fds /\ s.fdtab[oldfd] # NoOfd

Dup2(s, oldfd, newfd) ==
    IF ~Dup2OK(s, oldfd) \/ oldfd = newfd
    THEN s
    ELSE Gc([s EXCEPT !.fdtab[newfd] = s.fdtab[oldfd]])

---------------------------------------------------------------------------
(* The stdin FILE object *)

StdinOfd(s) ==
    IF s.sin.open /\ s.sin.fd \in Fds THEN s.fdtab[s.sin.fd] ELSE NoOfd

\* the file stdin reads from ("none" when the stream is closed)
StdinFile(s) ==
    IF StdinOfd(s) = NoOfd THEN "none" ELSE s.ofd[StdinOfd(s)].file

\* the stream position: the description's offset less what is read ahead
StdinPos(s) ==
    IF StdinOfd(s) = NoOfd THEN 0
    ELSE s.ofd[StdinOfd(s)].off - Len(s.sin.buf)

FdFile(s, fd) ==
    IF fd \in Fds /\ s.fdtab[fd] # NoOfd THEN s.ofd[s.fdtab[fd]].file ELSE "none"

\* What closing the stream's buffer does to the description's offset: glibc
\* seeks a seekable input back over the bytes read ahead but not consumed,
\* BSD libc drops them.
SyncInput(s) ==
    IF libc = "glibc" /\ StdinOfd(s) # NoOfd
    THEN SysSeek(s, s.sin.fd, StdinPos(s))
    ELSE s

---------------------------------------------------------------------------
(* libc: freopen, clearerr, rewind, fgetc, dup *)

FreshStream(fd) == [open |-> TRUE, fd |-> fd, buf |-> <<>>, eof |-> FALSE, err |-> FALSE]

\* Variant: the file is opened but stdin is not rebound to it (fopen where
\* freopen is meant).  Used to check that C5 rests on the rebinding.
FreopenPathNoRebind(s, path) == [ok |-> Exists(path), st |-> s]

\* freopen(filepath, "r", stdin).  The stream's old file is closed first,
\* whether or not the open then succeeds.  An open stream keeps its
\* descriptor number; a stream that was closed takes the lowest free one.
\* The result is [ok |-> whether the call returned stdin, st |-> the state].
FreopenPath(s, path) ==
    LET s0 == SyncInput(s)
    IN  IF ~Exists(path)
        THEN [ok |-> FALSE,
              st |-> [SysClose(s0, s.sin.fd) EXCEPT !.sin = ClosedStream]]
        ELSE IF s.sin.open
        THEN [ok |-> TRUE,
              st |-> [BindNew(s0, s.sin.fd, path) EXCEPT !.sin = FreshStream(s.sin.fd)]]
        ELSE IF FreeFds(s0) = {}
        THEN [ok |-> FALSE, st |-> [s0 EXCEPT !.sin = ClosedStream]]
        ELSE LET fd == Min(FreeFds(s0))
             IN  [ok |-> TRUE,
                  st |-> [BindNew(s0, fd, path) EXCEPT !.sin = FreshStream(fd)]]

\* freopen(NULL, "r", stdin): re-establishes the stream atop the descriptor
\* it already has.  A stream that is closed has none, and the call fails
\* without touching any descriptor.  Otherwise the file is reopened as if
\* by name: glibc opens it anew through the descriptor, BSD libc keeps the
\* description and seeks it to the start.
FreopenNull(s) ==
    IF ~s.sin.open
    THEN [ok |-> FALSE, st |-> s]
    ELSE IF StdinOfd(s) = NoOfd
    THEN [ok |-> FALSE, st |-> [s EXCEPT !.sin = ClosedStream]]
    ELSE LET s0 == SyncInput(s)
             fd == s.sin.fd
         IN  [ok |-> TRUE,
              st |-> IF libc = "glibc"
                     THEN [BindNew(s0, fd, StdinFile(s)) EXCEPT !.sin = FreshStream(fd)]
                     ELSE [SysSeek(s0, fd, 0) EXCEPT !.sin = FreshStream(fd)]]

\* clearerr(stdin)
Clearerr(s) == [s EXCEPT !.sin.eof = FALSE, !.sin.err = FALSE]

\* rewind(stdin)
Rewind(s) ==
    IF StdinOfd(s) = NoOfd THEN Clearerr(s)
    ELSE [SysSeek(s, s.sin.fd, 0) EXCEPT !.sin.buf = <<>>,
                                         !.sin.eof = FALSE, !.sin.err = FALSE]

\* One byte read from stdin (fgetc, or the library's scan consuming input):
\* [c |-> the byte or EOF, st |-> the state].
ReadStdin(s) ==
    IF ~s.sin.open THEN [c |-> EOF, st |-> s]
    ELSE IF s.sin.buf # <<>>
    THEN [c |-> Head(s.sin.buf), st |-> [s EXCEPT !.sin.buf = Tail(@)]]
    ELSE IF s.sin.eof THEN [c |-> EOF, st |-> s]
    ELSE IF StdinOfd(s) = NoOfd
    THEN [c |-> EOF, st |-> [s EXCEPT !.sin.err = TRUE]]
    ELSE LET o    == StdinOfd(s)
             data == Content(s.ofd[o].file)
             off  == s.ofd[o].off
             n    == IF Len(data) - off < BufSize THEN Len(data) - off ELSE BufSize
         IN  IF n <= 0
             THEN [c |-> EOF, st |-> [s EXCEPT !.sin.eof = TRUE]]
             ELSE [c |-> data[off + 1],
                   st |-> [s EXCEPT !.ofd[o].off = off + n,
                                    !.sin.buf = SubSeq(data, off + 2, off + n)]]

\* dup(fd): the lowest free descriptor made to share fd's description
DupOK(s, fd) == Dup2OK(s, fd) /\ FreeFds(s) # {}
Dup(s, fd) == Gc([s EXCEPT !.fdtab[Min(FreeFds(s))] = s.fdtab[fd]])

---------------------------------------------------------------------------
(* CKalliope.c: the stdin redirect / restore helper *)

\* Variant: the result == NULL test is missing.  Used to check that C1
\* rests on it.
RedirectUnchecked(s, filepath) ==
    [ret |-> 0, st |-> Rewind(Clearerr(FreopenPath(s, filepath).st))]

\* Variant: stdout and stderr are flushed before the freopen.  Used to check
\* that C8 rests on the helper leaving the output streams alone.
RedirectFlushing(s, filepath) ==
    LET result == FreopenPath([s EXCEPT !.out = [k \in {1, 2} |-> <<>>]], filepath)
    IN  IF ~result.ok
        THEN [ret |-> -1, st |-> result.st]
        ELSE [ret |-> 0, st |-> Rewind(Clearerr(result.st))]

\* int ckalliope_redirect_stdin_from_file(const char *filepath)
\* (freopen returns its stream argument on success, so result != stdin
\* never holds)
ckalliope_redirect_stdin_from_file(s, filepath) ==
    LET result == FreopenPath(s, filepath)
    IN  IF ~result.ok
        THEN [ret |-> -1, st |-> result.st]
        ELSE [ret |-> 0, st |-> Rewind(Clearerr(result.st))]

\* Variant: the result of dup2 is not tested.  Used to check that C4 rests
\* on the test.
RestoreUnchecked(s, original_fd) ==
    LET result == FreopenNull(Dup2(s, original_fd, STDIN_FILENO))
    IN  IF ~result.ok
        THEN [ret |-> -1, st |-> result.st]
        ELSE [ret |-> 0, st |-> Clearerr(result.st)]

\* Variant: dup2's arguments are swapped.  Used to check that C9 rests on
\* descriptor 0 being the one rebound.
RestoreSwapped(s, original_fd) ==
    IF ~Dup2OK(s, STDIN_FILENO) \/ original_fd \notin Fds
    THEN [ret |-> -1, st |-> s]
    ELSE LET result == FreopenNull(Dup2(s, STDIN_FILENO, original_fd))
         IN  IF ~result.ok
             THEN [ret |-> -1, st |-> result.st]
             ELSE [ret |-> 0, st |-> Clearerr(result.st)]

\* Variant: the saved descriptor is closed once duplicated.  Used to check
\* that C10 rests on the helper leaving it open.
RestoreClosing(s, original_fd) ==
    IF ~Dup2OK(s, original_fd)
    THEN [ret |-> -1, st |-> s]
    ELSE LET s1 == Dup2(s, original_fd, STDIN_FILENO)
             result == FreopenNull(IF original_fd = STDIN_FILENO THEN s1
                                   ELSE SysClose(s1, original_fd))
         IN  IF ~result.ok
             THEN [ret |-> -1, st |-> result.st]
             ELSE [ret |-> 0, st |-> Clearerr(result.st)]

\* int ckalliope_restore_stdin(int original_fd)
ckalliope_restore_stdin(s, original_fd) ==
    IF ~Dup2OK(s, original_fd)
    THEN [ret |-> -1, st |-> s]
    ELSE LET result == FreopenNull(Dup2(s, original_fd, STDIN_FILENO))
         IN  IF ~result.ok
             THEN [ret |-> -1, st |-> result.st]
             ELSE [ret |-> 0, st |-> Clearerr(result.st)]

---------------------------------------------------------------------------
(* The process at start, and a test that calls the helper sequentially *)

InitIO ==
    [fdtab |-> [f \in Fds |-> IF f = 0 THEN 1 ELSE IF f \in {1, 2} THEN 2 ELSE NoOfd],
     ofd   |-> [o \in OfdIds |->
                  IF o = 1 THEN [file |-> "orig", off |-> 0]
                  ELSE IF o = 2 THEN [file |-> "tty", off |-> 0]
                  ELSE FreeOfdRec],
     sin   |-> FreshStream(STDIN_FILENO),
     out   |-> [f \in {1, 2} |-> <<>>]]

NoCall == [op |-> "none", path |-> "none", fd |-> NoFd, ret |-> 0, target |-> "none"]
CycIdle == [phase |-> "idle", file |-> "none", pos |-> 0, saved |-> {}]
NoFwd == [fn |-> "none", args |-> <<>>, callee |-> "none", passed |-> <<>>,
          libret |-> 0, ret |-> 0, ncalls |-> 0]
NoPrec == [minFirst |-> <<>>, minLast |-> <<>>, maxFirst |-> <<>>, maxLast |-> <<>>]
Threads == {1, 2}
ThreadIdle == [pc |-> "start", saved |-> NoFd, ok |-> FALSE, got |-> <<>>, eof |-> FALSE]

InitCommon ==
    /\ libc \in {"bsd", "glibc"}
    /\ io = InitIO
    /\ step = "init"
    /\ call = NoCall
    /\ got = <<>>
    /\ eofSeen = FALSE
    /\ cyc = CycIdle
    /\ hist = [redirs |-> FALSE, fails |-> FALSE]
    /\ fwd = NoFwd
    /\ prec = NoPrec
    /\ thr = [t \in Threads |-> ThreadIdle]

Init == InitCommon /\ serialized = TRUE

\* The scenario monitor.  A successful redirect opens a scenario and records
\* the file stdin was bound to, its position, and the descriptors other than
\* the stream's own that the caller holds on that file; a successful restore
\* from one of them completes it.
CycAfterRedirect(s, ret) ==
    IF ret = 0 /\ StdinOfd(s) # NoOfd
    THEN [phase |-> "redir", file |-> StdinFile(s), pos |-> StdinPos(s),
          saved |-> {f \in Fds \ {s.sin.fd} : FdFile(s, f) = StdinFile(s)}]
    ELSE CycIdle

CycAfterRestore(fd, ret) ==
    IF ret = 0 /\ cyc.phase = "redir" /\ fd \in cyc.saved
    THEN [cyc EXCEPT !.phase = "restored"]
    ELSE CycIdle

\* the test calls ckalliope_redirect_stdin_from_file(path)
Redirect(path) ==
    \E r \in {ckalliope_redirect_stdin_from_file(io, path)} :
        /\ io' = r.st
        /\ step' = "redirect"
        /\ call' = [op |-> "redirect", path |-> path, fd |-> NoFd, ret |-> r.ret,
                    target |-> path]
        /\ got' = <<>>
        /\ eofSeen' = FALSE
        /\ cyc' = CycAfterRedirect(io, r.ret)
        /\ hist' = [redirs |-> TRUE, fails |-> hist.fails \/ r.ret # 0]
        /\ UNCHANGED <<libc, fwd, prec, thr, serialized>>

\* the test calls ckalliope_restore_stdin(fd)
Restore(fd) ==
    \E r \in {ckalliope_restore_stdin(io, fd)} :
        /\ io' = r.st
        /\ step' = "restore"
        /\ call' = [op |-> "restore", path |-> "none", fd |-> fd, ret |-> r.ret,
                    target |-> FdFile(io, fd)]
        /\ got' = <<>>
        /\ eofSeen' = FALSE
        /\ cyc' = CycAfterRestore(fd, r.ret)
        /\ hist' = [hist EXCEPT !.fails = hist.fails \/ r.ret # 0]
        /\ UNCHANGED <<libc, fwd, prec, thr, serialized>>

\* the test reads one byte of standard input
Read ==
    \E r \in {ReadStdin(io)} :
        /\ io' = r.st
        /\ step' = "read"
        /\ got' = IF r.c = EOF THEN got ELSE Append(got, r.c)
        /\ eofSeen' = (eofSeen \/ r.c = EOF)
        /\ UNCHANGED <<libc, call, cyc, hist, fwd, prec, thr, serialized>>

\* the descriptors the test holds besides 0, 1, 2 and the one under stdin
Saved(s) == OpenFds(s) \ {0, 1, 2, s.sin.fd}

\* the test saves standard input's descriptor: saved = dup(STDIN_FILENO).
\* It holds one saved descriptor at a time.
SaveFd ==
    /\ DupOK(io, STDIN_FILENO)
    /\ Saved(io) = {}
    /\ io' = Dup(io, STDIN_FILENO)
    /\ step' = "save"
    /\ UNCHANGED <<libc, call, got, eofSeen, cyc, hist, fwd, prec, thr, serialized>>

\* the test closes the descriptor it saved
CloseFd(fd) ==
    /\ fd \in Saved(io)
    /\ io' = SysClose(io, fd)
    /\ step' = "close"
    /\ cyc' = [cyc EXCEPT !.saved = @ \ {fd}]
    /\ UNCHANGED <<libc, call, got, eofSeen, hist, fwd, prec, thr, serialized>>

Next ==
    \/ \E path \in Paths : Redirect(path)
    \/ \E fd \in Fds : Restore(fd)
    \/ Read
    \/ SaveFd
    \/ \E fd \in Fds : CloseFd(fd)

Spec == Init /\ [][Next]_vars

---------------------------------------------------------------------------
(* CKalliope.c, CLinusBridge.c: the forwarding functions.  A library call is
   the operation called and the arguments passed, in order; its result r is
   the library's to choose. *)

LibCall(op, args, r) == [calls |-> <<[op |-> op, args |-> args]>>, ret |-> r]

ckalliope_vprintf(fmt, ap, r) == LibCall("__gmp_vprintf", <<fmt, ap>>, r)
ckalliope_vfprintf(stream, fmt, ap, r) == LibCall("__gmp_vfprintf", <<stream, fmt, ap>>, r)
ckalliope_vsprintf(buf, fmt, ap, r) == LibCall("__gmp_vsprintf", <<buf, fmt, ap>>, r)
ckalliope_vsnprintf(buf, size, fmt, ap, r) ==
    LibCall("__gmp_vsnprintf", <<buf, size, fmt, ap>>, r)
ckalliope_vasprintf(pp, fmt, ap, r) == LibCall("__gmp_vasprintf", <<pp, fmt, ap>>, r)
ckalliope_vscanf(fmt, ap, r) == LibCall("__gmp_vscanf", <<fmt, ap>>, r)
ckalliope_vfscanf(stream, fmt, ap, r) == LibCall("__gmp_vfscanf", <<stream, fmt, ap>>, r)
ckalliope_vsscanf(str, fmt, ap, r) == LibCall("__gmp_vsscanf", <<str, fmt, ap>>, r)

\* Variant: floor wired to the ceiling operation.  Used to check that C6
\* rests on each bridge calling its own operation.
RintFloorCrossed(rop, op, rnd, r) == LibCall("mpfr_rint_ceil", <<rop, op, rnd>>, r)
clinus_mpfr_rint_floor(rop, op, rnd, r) == LibCall("mpfr_rint_floor", <<rop, op, rnd>>, r)
clinus_mpfr_rint_ceil(rop, op, rnd, r) == LibCall("mpfr_rint_ceil", <<rop, op, rnd>>, r)
clinus_mpfr_rint_trunc(rop, op, rnd, r) == LibCall("mpfr_rint_trunc", <<rop, op, rnd>>, r)
clinus_mpfr_vprintf(fmt, ap, r) == LibCall("mpfr_vprintf", <<fmt, ap>>, r)
clinus_mpfr_vfprintf(stream, fmt, ap, r) == LibCall("mpfr_vfprintf", <<stream, fmt, ap>>, r)

\* the forwarding functions and the number of arguments each takes
Arity(fn) ==
    CASE fn \in {"ckalliope_vprintf", "ckalliope_vscanf", "clinus_mpfr_vprintf"} -> 2
      [] fn = "ckalliope_vsnprintf" -> 4
      [] OTHER -> 3

FwdFns ==
    {"ckalliope_vprintf", "ckalliope_vfprintf", "ckalliope_vsprintf",
     "ckalliope_vsnprintf", "ckalliope_vasprintf", "ckalliope_vscanf",
     "ckalliope_vfscanf", "ckalliope_vsscanf", "clinus_mpfr_rint_floor",
     "clinus_mpfr_rint_ceil", "clinus_mpfr_rint_trunc", "clinus_mpfr_vprintf",
     "clinus_mpfr_vfprintf"}

Bridge(fn, a, r) ==
    CASE fn = "ckalliope_vprintf"      -> ckalliope_vprintf(a[1], a[2], r)
      [] fn = "ckalliope_vfprintf"     -> ckalliope_vfprintf(a[1], a[2], a[3], r)
      [] fn = "ckalliope_vsprintf"     -> ckalliope_vsprintf(a[1], a[2], a[3], r)
      [] fn = "ckalliope_vsnprintf"    -> ckalliope_vsnprintf(a[1], a[2], a[3], a[4], r)
      [] fn = "ckalliope_vasprintf"    -> ckalliope_vasprintf(a[1], a[2], a[3], r)
      [] fn = "ckalliope_vscanf"       -> ckalliope_vscanf(a[1], a[2], r)
      [] fn = "ckalliope_vfscanf"      -> ckalliope_vfscanf(a[1], a[2], a[3], r)
      [] fn = "ckalliope_vsscanf"      -> ckalliope_vsscanf(a[1], a[2], a[3], r)
      [] fn = "clinus_mpfr_rint_floor" -> clinus_mpfr_rint_floor(a[1], a[2], a[3], r)
      [] fn = "clinus_mpfr_rint_ceil"  -> clinus_mpfr_rint_ceil(a[1], a[2], a[3], r)
      [] fn = "clinus_mpfr_rint_trunc" -> clinus_mpfr_rint_trunc(a[1], a[2], a[3], r)
      [] fn = "clinus_mpfr_vprintf"    -> clinus_mpfr_vprintf(a[1], a[2], r)
      [] fn = "clinus_mpfr_vfprintf"   -> clinus_mpfr_vfprintf(a[1], a[2], a[3], r)

\* Argument values a caller passes (pointers, a size, a rounding-mode code, as
\* tokens): two vectors that differ in every position and within themselves.
ArgVectors == {<<11, 12, 13, 14>>, <<24, 23, 22, 21>>}
\* What the library may return: the EOF sentinel (negative), zero, a count.
LibResults == {EOF, 0, 3}

\* the host language calls forwarding function fn
Forward(fn, v, r) ==
    \E b \in {Bridge(fn, SubSeq(v, 1, Arity(fn)), r)} :
        /\ fwd' = [fn |-> fn, args |-> SubSeq(v, 1, Arity(fn)),
                   callee |-> b.calls[Len(b.calls)].op,
                   passed |-> b.calls[Len(b.calls)].args,
                   libret |-> r, ret |-> b.ret, ncalls |-> Len(b.calls)]
        /\ step' = "forward"
        /\ UNCHANGED <<libc, io, call, got, eofSeen, cyc, hist, prec, thr, serialized>>

---------------------------------------------------------------------------
(* CLinusBridge.c: the precision bounds.  mpfr_prec_t is long; a value is
   written as its four 16-bit limbs, most significant first. *)

\* mpfr.h: #define MPFR_PREC_MIN 1
MPFR_PREC_MIN == <<0, 0, 0, 1>>
\* mpfr.h: #define MPFR_PREC_MAX ((mpfr_prec_t) ((((mpfr_uprec_t) -1) >> 1) - 256)),
\* 2^63 - 257 = 0x7FFF FFFF FFFF FEFF
MPFR_PREC_MAX == <<32767, 65535, 65535, 65279>>

\* Variant: the minimum query returns the maximum macro.  Used to check that
\* C7 rests on the value returned.
PrecMinPasted == MPFR_PREC_MAX
\* mpfr_prec_t clinus_get_prec_min(void)
clinus_get_prec_min == MPFR_PREC_MIN
\* mpfr_prec_t clinus_get_prec_max(void)
clinus_get_prec_max == MPFR_PREC_MAX

\* a < b on limb vectors
LongLess(a, b) ==
    \E i \in 1..4 : a[i] < b[i] /\ \A j \in 1..(i - 1) : a[j] = b[j]

GetPrecMin ==
    /\ prec' = [prec EXCEPT !.minFirst = IF @ = <<>> THEN clinus_get_prec_min ELSE @,
                            !.minLast = clinus_get_prec_min]
    /\ step' = "prec_min"
    /\ UNCHANGED <<libc, io, call, got, eofSeen, cyc, hist, fwd, thr, serialized>>

GetPrecMax ==
    /\ prec' = [prec EXCEPT !.maxFirst = IF @ = <<>> THEN clinus_get_prec_max ELSE @,
                            !.maxLast = clinus_get_prec_max]
    /\ step' = "prec_max"
    /\ UNCHANGED <<libc, io, call, got, eofSeen, cyc, hist, fwd, thr, serialized>>

\* The host language calling the forwarding layer, the precision queries and
\* the redirect helper in any order.
NextFwd ==
    \/ \E fn \in FwdFns, v \in ArgVectors, r \in LibResults : Forward(fn, v, r)
    \/ GetPrecMin
    \/ GetPrecMax
    \/ \E path \in {"A", "missing"} : Redirect(path)
    \/ Restore(STDIN_FILENO)

SpecFwd == Init /\ [][NextFwd]_vars

---------------------------------------------------------------------------
(* Output streams beside the redirect helper *)

\* formatted output leaves a byte in the buffer of stdout (1) or stderr (2)
WriteOut(k) ==
    /\ Len(io.out[k]) < MaxOut
    /\ io' = [io EXCEPT !.out[k] = Append(@, 7)]
    /\ step' = "write"
    /\ UNCHANGED <<libc, call, got, eofSeen, cyc, hist, fwd, prec, thr, serialized>>

\* A test that prints, redirects, reads and restores.
NextOut ==
    \/ \E k \in {1, 2} : WriteOut(k)
    \/ \E path \in Paths : Redirect(path)
    \/ \E fd \in Fds : Restore(fd)
    \/ Read

SpecOut == Init /\ [][NextOut]_vars

---------------------------------------------------------------------------
(* Two test threads, each running
       saved = dup(0); redirect(own file); reads of stdin; restore(saved); close(saved)
   The helper takes no lock, so a step is one libc call (each locks the FILE
   or is one system call).  When serialized, a thread starts only while no
   other thread is inside its sequence. *)

\* reads one thread makes while redirected
MaxReads == 2

ThreadFile(t) == IF t = 1 THEN "A" ELSE "B"

MayStart(t) ==
    serialized => \A u \in Threads \ {t} : thr[u].pc \in {"start", "done"}

ConcFrame == UNCHANGED <<libc, step, call, got, eofSeen, cyc, hist, fwd, prec, serialized>>

\* saved = dup(STDIN_FILENO)
T_Save(t) ==
    /\ thr[t].pc = "start"
    /\ MayStart(t)
    /\ IF DupOK(io, STDIN_FILENO)
       THEN /\ thr' = [thr EXCEPT ![t].pc = "freopen", ![t].saved = Min(FreeFds(io))]
            /\ io' = Dup(io, STDIN_FILENO)
       ELSE /\ thr' = [thr EXCEPT ![t].pc = "freopen"]
            /\ io' = io
    /\ ConcFrame

\* ckalliope_redirect_stdin_from_file: freopen(filepath, "r", stdin)
T_Freopen(t) ==
    /\ thr[t].pc = "freopen"
    /\ \E result \in {FreopenPath(io, ThreadFile(t))} :
          /\ io' = result.st
          /\ thr' = [thr EXCEPT ![t].pc = IF result.ok THEN "rewind" ELSE "dup2"]
    /\ ConcFrame

\* ckalliope_redirect_stdin_from_file: clearerr(stdin); rewind(stdin); return 0
T_Rewind(t) ==
    /\ thr[t].pc = "rewind"
    /\ io' = Rewind(Clearerr(io))
    /\ thr' = [thr EXCEPT ![t].pc = "read", ![t].ok = TRUE]
    /\ ConcFrame

\* the thread reads one byte of standard input
T_Read(t) ==
    /\ thr[t].pc = "read"
    /\ Len(thr[t].got) < MaxReads
    /\ \E r \in {ReadStdin(io)} :
          /\ io' = r.st
          /\ thr' = [thr EXCEPT ![t].got = IF r.c = EOF THEN @ ELSE Append(@, r.c),
                                ![t].eof = (@ \/ r.c = EOF)]
    /\ ConcFrame

\* the thread stops reading
T_EndRead(t) ==
    /\ thr[t].pc = "read"
    /\ thr' = [thr EXCEPT ![t].pc = "dup2"]
    /\ UNCHANGED io
    /\ ConcFrame

\* ckalliope_restore_stdin: dup2(original_fd, STDIN_FILENO)
T_Dup2(t) ==
    /\ thr[t].pc = "dup2"
    /\ io' = Dup2(io, thr[t].saved, STDIN_FILENO)
    /\ thr' = [thr EXCEPT ![t].pc = IF Dup2OK(io, thr[t].saved) THEN "reopen" ELSE "close"]
    /\ ConcFrame

\* ckalliope_restore_stdin: freopen(NULL, "r", stdin); clearerr(stdin)
T_Reopen(t) ==
    /\ thr[t].pc = "reopen"
    /\ \E result \in {FreopenNull(io)} :
          io' = IF result.ok THEN Clearerr(result.st) ELSE result.st
    /\ thr' = [thr EXCEPT ![t].pc = "close"]
    /\ ConcFrame

\* close(saved)
T_Close(t) ==
    /\ thr[t].pc = "close"
    /\ io' = SysClose(io, thr[t].saved)
    /\ thr' = [thr EXCEPT ![t].pc = "done"]
    /\ ConcFrame

NextConc ==
    \E t \in Threads :
        \/ T_Save(t)
        \/ T_Freopen(t)
        \/ T_Rewind(t)
        \/ T_Read(t)
        \/ T_EndRead(t)
        \/ T_Dup2(t)
        \/ T_Reopen(t)
        \/ T_Close(t)

InitConc == InitCommon /\ serialized \in BOOLEAN

SpecConc == InitConc /\ [][NextConc]_vars

---------------------------------------------------------------------------
(* Claims on the redirect / restore helper, sequential use *)

\* p is what a reader finds in s after skipping its first k bytes
IsPrefixAt(p, s, k) ==
    /\ k + Len(p) <= Len(s)
    /\ \A i \in 1..Len(p) : p[i] = s[k + i]

\* C1: whenever redirect(path) returned 0, stdin is open on the file at path
\* with its error and end-of-file flags clear and its position at the first
\* byte, and the reads that follow return exactly that file's bytes from the
\* first one, whatever stdin was bound to and had consumed before.
C1_RedirectReadsFile ==
    (call.op = "redirect" /\ call.ret = 0) =>
        /\ io.sin.open
        /\ StdinFile(io) = call.path
        /\ ~io.sin.err
        /\ io.sin.eof = eofSeen
        /\ StdinPos(io) = Len(got)
        /\ IsPrefixAt(got, Content(call.path), 0)
        /\ (eofSeen => got = Content(call.path))
        /\ (step = "redirect" => got = <<>> /\ io.sin.buf = <<>>)

\* C1's case: stdin had been read into before the redirect, and the reads
\* after it have returned the whole file
C1_Witness ==
    /\ call.op = "redirect" /\ call.ret = 0
    /\ cyc.phase = "redir" /\ cyc.pos > 0
    /\ eofSeen /\ got = Content(call.path)

\* C2: a redirect that returns -1 makes no state change: stdin stays open and
\* bound to the source it had, at the position it had.
C2_FailedRedirectNoChange ==
    [][(step' = "redirect" /\ call'.ret = -1 /\ io.sin.open) =>
          /\ io'.sin.open
          /\ StdinFile(io') = StdinFile(io)
          /\ StdinPos(io') = StdinPos(io)]_vars

\* C3: after a successful redirect and a successful restore from a descriptor
\* saved for the original input, stdin reads the original source again from
\* the position it had before the redirect, however many reads were done
\* while redirected.
C3_RestoreResumes ==
    cyc.phase = "restored" =>
        /\ StdinFile(io) = cyc.file
        /\ IsPrefixAt(got, Content(cyc.file), cyc.pos)
        /\ (eofSeen => cyc.pos + Len(got) = Len(Content(cyc.file)))

C9_NoPairing ==
    [][/\ (step' = "redirect" /\ Exists(call'.path)) =>
            /\ call'.ret = 0
            /\ StdinFile(io') = call'.path /\ StdinPos(io') = 0
            /\ (io.sin.open => OpenFds(io') = OpenFds(io) /\ io'.sin.fd = io.sin.fd)
       /\ (step' = "restore" /\ ~hist.redirs /\ call'.fd \in OpenFds(io)) =>
            /\ call'.ret = 0
            /\ StdinFile(io') = FdFile(io, call'.fd)
       /\ (call'.op # "none" /\ ~hist'.fails) => StdinFile(io') = call'.target
      ]_vars

\* C9's case: a redirect to B made while stdin was redirected to A
C9_Witness ==
    /\ step = "redirect" /\ call.path = "B" /\ call.ret = 0
    /\ cyc.phase = "redir" /\ cyc.file = "A"
    /\ StdinFile(io) = "B"

\* C10: restore(original_fd), original_fd not 0, leaves original_fd open on
\* the same file whether it returns 0 or -1, so one saved descriptor serves
\* any number of redirect / restore cycles.
C10_RestoreKeepsFd ==
    [][(step' = "restore" /\ call'.fd # STDIN_FILENO /\ call'.fd \in OpenFds(io)) =>
          /\ call'.fd \in OpenFds(io')
          /\ FdFile(io', call'.fd) = FdFile(io, call'.fd)
          /\ (call'.ret = 0 /\ ~hist'.fails) => StdinFile(io') = FdFile(io, call'.fd)
      ]_vars

\* C10's case: a redirect / restore cycle completed from a saved descriptor
\* other than 0, which is open on the original file afterwards
C10_Witness ==
    /\ step = "restore" /\ call.ret = 0 /\ call.fd # STDIN_FILENO
    /\ cyc.phase = "restored"
    /\ call.fd \in OpenFds(io) /\ FdFile(io, call.fd) = cyc.file
    /\ StdinFile(io) = cyc.file

\* Model sanity: a stream that is closed always finds a free descriptor to
\* reopen on, so FreopenPath never fails for want of one.
SanityNoExhaustion == ~io.sin.open => FreeFds(io) # {}


---------------------------------------------------------------------------
(* Claims on the helper under threads, the forwarding layer, the precision
   bounds and the output streams *)

\* what thread t read is the start of its own file
ReadsOwnFile(t) ==
    /\ IsPrefixAt(thr[t].got, Content(ThreadFile(t)), 0)
    /\ (thr[t].eof => thr[t].got = Content(ThreadFile(t)))

LibraryOperationOf(fn) ==
    CASE fn = "ckalliope_vprintf"      -> "__gmp_vprintf"
      [] fn = "ckalliope_vfprintf"     -> "__gmp_vfprintf"
      [] fn = "ckalliope_vsprintf"     -> "__gmp_vsprintf"
      [] fn = "ckalliope_vsnprintf"    -> "__gmp_vsnprintf"
      [] fn = "ckalliope_vasprintf"    -> "__gmp_vasprintf"
      [] fn = "ckalliope_vscanf"       -> "__gmp_vscanf"
      [] fn = "ckalliope_vfscanf"      -> "__gmp_vfscanf"
      [] fn = "ckalliope_vsscanf"      -> "__gmp_vsscanf"
      [] fn = "clinus_mpfr_rint_floor" -> "mpfr_rint_floor"
      [] fn = "clinus_mpfr_rint_ceil"  -> "mpfr_rint_ceil"
      [] fn = "clinus_mpfr_rint_trunc" -> "mpfr_rint_trunc"
      [] fn = "clinus_mpfr_vprintf"    -> "mpfr_vprintf"
      [] fn = "clinus_mpfr_vfprintf"   -> "mpfr_vfprintf"
      [] OTHER                         -> "none"

\* C6: every forwarding function makes exactly one library call, to the
\* operation it is named after, with every argument unchanged and in place,
\* and returns the library's result verbatim.
C6_ForwardVerbatim ==
    fwd.fn # "none" =>
        /\ fwd.ncalls = 1
        /\ fwd.callee = LibraryOperationOf(fwd.fn)
        /\ fwd.passed = fwd.args
        /\ fwd.ret = fwd.libret

\* C6's case: the four-argument bridge forwarded, the library returned its
\* end-of-input sentinel
C6_Witness ==
    /\ fwd.fn = "ckalliope_vsnprintf" /\ Len(fwd.passed) = 4
    /\ fwd.libret = EOF /\ fwd.ret = EOF

\* C7: the two precision queries return the same value on every call,
\* whatever was called before or between, and the minimum is below the maximum.
C7_PrecConstant ==
    /\ prec.minLast # <<>> => prec.minLast = prec.minFirst
    /\ prec.maxLast # <<>> => prec.maxLast = prec.maxFirst
    /\ (prec.minLast # <<>> /\ prec.maxLast # <<>>) => LongLess(prec.minLast, prec.maxLast)

\* C7's case: a query made after a forwarding call, a redirect and a restore
C7_Witness ==
    /\ step = "prec_min" /\ prec.maxLast # <<>>
    /\ fwd.fn # "none" /\ call.op = "restore" /\ hist.redirs

\* the open file description behind descriptor k
FdOfd(s, k) == IF s.fdtab[k] = NoOfd THEN FreeOfdRec ELSE s.ofd[s.fdtab[k]]

\* C8: neither redirect nor restore, on any path, changes what stdout and
\* stderr hold buffered, or what descriptors 1 and 2 refer to.
C8_OutputUntouched ==
    [][step' \in {"redirect", "restore"} =>
          /\ io'.out = io.out
          /\ \A k \in {1, 2} :
                /\ io'.fdtab[k] # NoOfd
                /\ FdOfd(io', k) = FdOfd(io, k)
          /\ (io'.fdtab[1] = io'.fdtab[2]) = (io.fdtab[1] = io.fdtab[2])]_vars

\* C8's case: a restore returned with bytes pending in stdout and stderr
C8_Witness ==
    /\ step = "restore" /\ call.ret = 0
    /\ io.out[1] # <<>> /\ io.out[2] # <<>>

====
